---- MODULE Spec2Model ----
(***************************************************************************)
(* Model of lib/tracing/index.js: assembly of the sampler, propagator,     *)
(* instrumentations and exporter, and the bootstrap of the process-wide    *)
(* tracer provider.                                                        *)
(*                                                                         *)
(* JavaScript values are modelled as follows.  An optional value (one that *)
(* may be undefined) is None == <<>> or Some(v) == <<v>>.  A string that   *)
(* the code concatenates or tests with startsWith / match is a sequence of *)
(* pieces, so that the empty string is <<>> and concatenation is \o.       *)
(***************************************************************************)
EXTENDS Integers, Sequences, FiniteSets, TLC

VARIABLES
  telemetry,     \* cds.env.requires.telemetry
  process_env,   \* process.env: DT_NODE_PRELOAD_OPTIONS, NODE_ENV
  credentials,   \* what getDynatraceCredentials / getCloudLoggingCredentials return
  heap,          \* the headers objects, by reference
  otel,          \* the global tracer provider state of @opentelemetry/api
  cds,           \* cds._telemetry.tracer, its _active mark, the 'served' handlers
  calls,         \* how often each assembler and the bootstrap were invoked
  last,          \* outcome of the last operation
  sampler,       \* the composite sampler returned by _getSampler
  sampling       \* the last shouldSample call: its input and its result

vars == <<telemetry, process_env, credentials, heap, otel, cds, calls, last, sampler, sampling>>

----------------------------------------------------------------------------
(* Bounds *)
MaxLen == 2        \* longest url / prefix, in characters
MaxPaths == 2      \* longest ignoreIncomingPaths list
MaxCalls == 3      \* bootstrap calls per process
MaxServed == 2     \* times the 'served' event fires
MaxSamples == 1    \* shouldSample calls per behaviour

----------------------------------------------------------------------------
(* JavaScript values *)
None == <<>>
Some(v) == <<v>>
IsSet(o) == o /= None              \* not undefined: what ??= tests
Val(o) == o[1]
Truthy(o) == o /= None /\ Val(o) /= <<>>   \* neither undefined nor ""
Str(o) == IF o = None THEN "undefined" ELSE Val(o)   \* `${o}` of an atom
Tpl(o) == IF o = None THEN <<"undefined">> ELSE Val(o)   \* `${o}` of a string

Contains(err, piece) == \E i \in 1..Len(err) : err[i] = piece

SeqsUpTo(S, n) == UNION {[1..k -> S] : k \in 0..n}

Chars == {"/", "h"}
Strings == SeqsUpTo(Chars, MaxLen)

StartsWith(s, p) == Len(p) <= Len(s) /\ SubSeq(s, 1, Len(p)) = p

----------------------------------------------------------------------------
(* _getSampler *)

\* require('@opentelemetry/sdk-trace-base')[name]: a constructor for an
\* exported class, a non-constructible value for a name the module object
\* inherits, undefined otherwise.
BaseExports == {"AlwaysOnSampler", "AlwaysOffSampler", "ParentBasedSampler", "TraceIdRatioBasedSampler"}
BaseInherited == {"toString"}
base(name) ==
  IF name \in BaseExports THEN "class"
  ELSE IF name \in BaseInherited THEN "function"
  ELSE "undefined"

\* the filter predicate built at lines 15-24
_shouldSample(paths, originalUrl) ==
  IF ~paths.isArray \/ Len(paths.items) = 0 THEN TRUE
  ELSE IF ~Truthy(originalUrl) THEN TRUE
  ELSE ~(\E i \in 1..Len(paths.items) : StartsWith(Val(originalUrl), paths.items[i]))

\* the decorator of lines 26-34; parentDecision is what parent.shouldSample
\* answers when it is asked
_filterSampler(paths, originalUrl, parentDecision) ==
  IF ~_shouldSample(paths, originalUrl)
  THEN [decision |-> "NOT_RECORD", consulted |-> FALSE]
  ELSE [decision |-> parentDecision, consulted |-> TRUE]

Thrown(err) == [ok |-> FALSE, error |-> err, value |-> None]
Returned(v) == [ok |-> TRUE, error |-> <<>>, value |-> Some(v)]
NotAConstructor == <<"TypeError: ", "base[...] is not a constructor">>

GetSamplerNoKindCheck(t) ==
  LET kind == t.sampler.kind
      root == t.sampler.root
  IN  IF kind = "ParentBasedSampler" /\ base(Str(root)) = "undefined"
      THEN Thrown(<<"Unknown sampler ", Str(root)>>)
      ELSE Returned([paths |-> t.ignoreIncomingPaths, kind |-> kind,
                     root |-> IF kind = "ParentBasedSampler" THEN root ELSE None])

_getSampler(t) ==
  LET kind == t.sampler.kind
      root == t.sampler.root
  IN  IF base(kind) = "undefined" THEN Thrown(<<"Unknown sampler ", kind>>)
      ELSE IF kind = "ParentBasedSampler"
      THEN IF base(Str(root)) = "undefined" THEN Thrown(<<"Unknown sampler ", Str(root)>>)
           ELSE IF base(Str(root)) # "class" THEN Thrown(NotAConstructor)
           ELSE Returned([paths |-> t.ignoreIncomingPaths, kind |-> kind, root |-> root])
      ELSE IF base(kind) # "class" THEN Thrown(NotAConstructor)
      ELSE Returned([paths |-> t.ignoreIncomingPaths, kind |-> kind, root |-> None])

\* what the delegate built from the SDK can answer
ParentDecisions(s) ==
  IF s.kind = "AlwaysOnSampler" THEN {"RECORD_AND_SAMPLED"}
  ELSE IF s.kind = "AlwaysOffSampler" THEN {"NOT_RECORD"}
  ELSE {"NOT_RECORD", "RECORD_AND_SAMPLED"}
----------------------------------------------------------------------------
(* _getPropagator, _getInstrumentations *)

\* what loading a module yields: the class names it exports
ModuleExports(module) ==
  IF module = "@opentelemetry/core" THEN {"W3CTraceContextPropagator", "W3CBaggagePropagator"}
  ELSE IF module = "@opentelemetry/propagator-b3" THEN {"B3Propagator"}
  ELSE IF module = "@opentelemetry/instrumentation-http" THEN {"HttpInstrumentation"}
  ELSE IF module = "@opentelemetry/exporter-trace-otlp-proto" THEN {"OTLPTraceExporter"}
  ELSE IF module = "@cap-js/telemetry" THEN {"ConsoleSpanExporter"}
  ELSE {}

\* a propagator entry is a string (module = None) or {module, class}
PropagatorKnown(each) ==
  IF ~IsSet(each.module) THEN each.class \in ModuleExports("@opentelemetry/core")
  ELSE each.class \in ModuleExports(Val(each.module))

PropagatorError(each) ==
  <<"Unknown propagator \"", each.class, "\" in module \"",
    IF IsSet(each.module) THEN Val(each.module) ELSE "@opentelemetry/core", "\"">>

_getPropagator(t) ==
  LET ps == t.propagators
      bad == {i \in 1..Len(ps) : ~PropagatorKnown(ps[i])}
  IN  IF bad # {}
      THEN Thrown(PropagatorError(ps[CHOOSE i \in bad : \A j \in bad : i <= j]))
      ELSE Returned([i \in 1..Len(ps) |-> ps[i].class])

_getInstrumentations(t) ==
  LET is == t.instrumentations
      bad == {i \in 1..Len(is) : is[i].class \notin ModuleExports(is[i].module)}
      first == CHOOSE i \in bad : \A j \in bad : i <= j
  IN  IF bad # {}
      THEN Thrown(<<"Unknown instrumentation \"", is[first].class, "\" in module \"", is[first].module, "\"">>)
      ELSE Returned([i \in 1..Len(is) |-> is[i].class])

----------------------------------------------------------------------------
(* _getExporter *)

\* cds.env.requires.telemetry.kind.match(/tag/): kind is a sequence of words
Match(kind, tag) == \E i \in 1..Len(kind) : kind[i] = tag

\* x ??= v
NullishAssign(x, v) == IF IsSet(x) THEN x ELSE v

EmptyConfig == [url |-> None, headers |-> None, credentials |-> None]

\* lines 85-95; c is the copy of the declared config, h the heap.
\* Yields the copy, the heap and whether the token was missing.
DynatraceBranch(t, creds, c, h) ==
  LET dynatrace == Val(creds.dynatrace)
      url == NullishAssign(c.url, Some(Tpl(dynatrace.apiurl) \o <<"/v2/otlp/v1/traces">>))
      headers == NullishAssign(c.headers, Some("fresh"))
      h1 == IF IsSet(c.headers) THEN h ELSE [h EXCEPT !["fresh"] = [authorization |-> None]]
      token == IF Truthy(dynatrace.named) THEN dynatrace.named ELSE dynatrace.legacy
      c1 == [c EXCEPT !.url = url, !.headers = headers]
  IN  IF ~Truthy(token)
      THEN [missing |-> TRUE, config |-> c1, heap |-> h1]
      ELSE [missing |-> FALSE, config |-> c1,
            heap |-> [h1 EXCEPT ![Val(headers)].authorization =
                                   NullishAssign(@, Some(<<"Api-Token ">> \o Val(token)))]]

CloudLoggingBranchOverwrite(creds, c) ==
  LET clc == Val(creds.clc)
  IN  [c EXCEPT !.url = clc.url,
                !.credentials = NullishAssign(@, clc.credentials)]

\* lines 97-101
CloudLoggingBranch(creds, c) ==
  LET clc == Val(creds.clc)
  IN  [c EXCEPT !.url = NullishAssign(@, clc.url),
                !.credentials = NullishAssign(@, clc.credentials)]

_getExporter(t, creds, h) ==
  LET tracingExporter == Val(t.exporter)
      tracingConfig == IF IsSet(tracingExporter.config) THEN Val(tracingExporter.config)
                       ELSE EmptyConfig
      useDt == IsSet(creds.dynatrace) /\ Match(t.kind, "dynatrace")
      dt == IF useDt THEN DynatraceBranch(t, creds, tracingConfig, h)
            ELSE [missing |-> FALSE, config |-> tracingConfig, heap |-> h]
      useClc == IsSet(creds.clc) /\ Match(t.kind, "cloud-logging")
      final == IF useClc THEN CloudLoggingBranch(creds, dt.config) ELSE dt.config
  IN  IF tracingExporter.class \notin ModuleExports(tracingExporter.module)
      THEN [ok |-> FALSE, arg |-> None, heap |-> h,
            error |-> <<"Unknown tracing exporter \"", tracingExporter.class,
                        "\" in module \"", tracingExporter.module, "\"">>]
      ELSE IF dt.missing
      THEN [ok |-> FALSE, arg |-> None, heap |-> dt.heap,
            error |-> <<"Neither \"", t.token_name, "\" nor deprecated \"",
                        "rest_apitoken.token", "\" found in Dynatrace credentials">>]
      ELSE [ok |-> TRUE, arg |-> Some(final), heap |-> dt.heap, error |-> <<>>]
----------------------------------------------------------------------------
(* module.exports: the bootstrap *)

NoResult == [ok |-> TRUE, error |-> <<>>, value |-> None]
NoCall == [op |-> "none", ok |-> TRUE, error |-> <<>>, arg |-> None]

HostAgentBypass(t, env) == Truthy(env.DT_NODE_PRELOAD_OPTIONS) /\ Match(t.kind, "dynatrace")

SpanProcessorSimple(env) == "SimpleSpanProcessor"

\* lines 131-132
SpanProcessor(env) ==
  IF IsSet(env.NODE_ENV) /\ Val(env.NODE_ENV) = "production"
  THEN "BatchSpanProcessor" ELSE "SimpleSpanProcessor"

\* lines 116-121.  st carries otel, calls, sampler and the error thrown, if any.
NewProvider(t, st) ==
  LET s == _getSampler(t)
      st1 == [st EXCEPT !.calls.sampler = @ + 1, !.sampler = s]
      st2 == [st1 EXCEPT !.otel.constructed = @ + 1]
      p == _getPropagator(t)
      st3 == [st2 EXCEPT !.calls.propagator = @ + 1]
      st4 == [st3 EXCEPT !.otel.delegate = TRUE, !.otel.registered = @ + 1,
                         !.otel.propagator = p.value]
      i == _getInstrumentations(t)
      st5 == [st4 EXCEPT !.calls.instrumentations = @ + 1]
  IN  IF ~s.ok THEN [st1 EXCEPT !.thrown = Some(s.error)]
      ELSE IF ~p.ok THEN [st3 EXCEPT !.thrown = Some(p.error)]
      ELSE IF ~i.ok THEN [st5 EXCEPT !.thrown = Some(i.error)]
      ELSE [st5 EXCEPT !.otel.instrumentations = i.value]

GeneralSetupNoCheck(t, st) == NewProvider(t, st)

\* lines 114-125
GeneralSetup(t, st) ==
  IF st.otel.delegate THEN st ELSE NewProvider(t, st)

\* lines 126-134
AttachProcessor(t, env, creds, st) ==
  IF HostAgentBypass(t, env) THEN st
  ELSE
    LET e == _getExporter(t, creds, st.heap)
        st1 == [st EXCEPT !.calls.exporter = @ + 1, !.heap = e.heap]
    IN  IF ~e.ok THEN [st1 EXCEPT !.thrown = Some(e.error)]
        ELSE [st1 EXCEPT !.otel.processors = Append(@, SpanProcessor(env)), !.arg = e.arg]

ExposeTracerActive(st) ==
  [st EXCEPT !.cds.tracer = TRUE, !.cds.active = TRUE, !.cds.handlers = @ + 1,
             !.calls.completed = @ + 1]

\* lines 136-142
ExposeTracer(st) ==
  [st EXCEPT !.cds.tracer = TRUE, !.cds.handlers = @ + 1, !.calls.completed = @ + 1]

Bootstrap ==
  /\ calls.bootstrap < MaxCalls
  /\ LET st0 == [otel |-> otel, cds |-> cds, heap |-> heap, sampler |-> sampler,
                 calls |-> [calls EXCEPT !.bootstrap = @ + 1],
                 thrown |-> None, arg |-> None]
         st1 == GeneralSetup(telemetry, st0)
         st2 == AttachProcessor(telemetry, process_env, credentials, st1)
         st == IF ~IsSet(telemetry.exporter) THEN st0
               ELSE IF IsSet(st1.thrown) THEN st1
               ELSE IF IsSet(st2.thrown) THEN st2
               ELSE ExposeTracer(st2)
     IN  /\ otel' = st.otel
         /\ cds' = st.cds
         /\ heap' = st.heap
         /\ sampler' = st.sampler
         /\ calls' = st.calls
         /\ last' = [op |-> "bootstrap", ok |-> ~IsSet(st.thrown),
                     error |-> IF IsSet(st.thrown) THEN Val(st.thrown) ELSE <<>>,
                     arg |-> st.arg]
  /\ UNCHANGED <<telemetry, process_env, credentials, sampling>>

\* the 'served' event of cds: every handler registered at line 140 runs
Served ==
  /\ cds.served < MaxServed
  /\ cds' = [cds EXCEPT !.served = @ + 1,
                        !.active = IF cds.handlers > 0 THEN TRUE ELSE @]
  /\ UNCHANGED <<telemetry, process_env, credentials, heap, otel, calls, last, sampler, sampling>>

----------------------------------------------------------------------------
(* The configurations and environments explored *)

Console == <<"telemetry", "to", "console">>
Dynatrace == <<"telemetry", "to", "dynatrace">>
CloudLogging == <<"telemetry", "to", "cloud-logging">>
Both == <<"dynatrace", "and", "cloud-logging">>

W3C == [module |-> None, class |-> "W3CTraceContextPropagator"]
B3 == [module |-> Some("@opentelemetry/propagator-b3"), class |-> "B3Propagator"]
Http == [module |-> "@opentelemetry/instrumentation-http", class |-> "HttpInstrumentation"]
Otlp(config) == [module |-> "@opentelemetry/exporter-trace-otlp-proto", class |-> "OTLPTraceExporter",
                 config |-> config]

DefaultTelemetry ==
  [kind |-> Console, token_name |-> "ingest_apitoken",
   sampler |-> [kind |-> "ParentBasedSampler", root |-> Some("AlwaysOnSampler")],
   ignoreIncomingPaths |-> [isArray |-> FALSE, items |-> <<>>],
   propagators |-> <<W3C, B3>>,
   instrumentations |-> <<Http>>,
   exporter |-> Some(Otlp(None))]

NoCredentials == [dynatrace |-> None, clc |-> None]
DefaultEnv == [DT_NODE_PRELOAD_OPTIONS |-> None, NODE_ENV |-> None]
EmptyHeap == [r \in {"declared", "fresh"} |-> [authorization |-> None]]
InitOtel == [delegate |-> FALSE, constructed |-> 0, registered |-> 0, propagator |-> None,
             instrumentations |-> None, processors |-> <<>>]
InitCds == [tracer |-> FALSE, active |-> FALSE, handlers |-> 0, served |-> 0]
InitCalls == [bootstrap |-> 0, completed |-> 0, sampler |-> 0, propagator |-> 0,
              instrumentations |-> 0, exporter |-> 0, shouldSample |-> 0]
NoSampling == [originalUrl |-> None, decision |-> "none", consulted |-> FALSE, parent |-> "none"]

InitProcess ==
  /\ otel = InitOtel
  /\ cds = InitCds
  /\ calls = InitCalls
  /\ last = NoCall
  /\ sampler = NoResult
  /\ sampling = NoSampling

DynatraceCredentials ==
  {None} \cup {Some([apiurl |-> Some(<<"https://dt">>), named |-> n, legacy |-> l]) :
                 n \in {None, Some(<<>>), Some(<<"tokN">>)}, l \in {None, Some(<<"tokL">>)}}
CloudLoggingCredentials ==
  {None, Some([url |-> Some(<<"https://clc">>), credentials |-> Some(<<"clc-creds">>)])}

Init ==
  /\ telemetry \in
       {[DefaultTelemetry EXCEPT !.kind = k, !.sampler.kind = sk, !.propagators = ps,
                                 !.instrumentations = is, !.exporter = ex] :
          k \in {Console, Dynatrace},
          sk \in {"ParentBasedSampler", "MySampler"},
          ps \in {<<W3C, B3>>, <<W3C, [B3 EXCEPT !.class = "B4Propagator"]>>},
          is \in {<<Http>>, <<Http, [Http EXCEPT !.class = "GrpcInstrumentation"]>>},
          ex \in {None, Some(Otlp(None)), Some([Otlp(None) EXCEPT !.class = "MyExporter"]),
                  Some(Otlp(Some([EmptyConfig EXCEPT !.headers = Some("declared")])))}}
  /\ process_env \in [DT_NODE_PRELOAD_OPTIONS : {None, Some(<<"-r agent">>)},
                       NODE_ENV : {None, Some("production"), Some("development")}]
  /\ credentials \in [dynatrace : {None, Some([apiurl |-> Some(<<"https://dt">>), named |-> None, legacy |-> None]),
                                    Some([apiurl |-> Some(<<"https://dt">>), named |-> Some(<<"tokN">>), legacy |-> None])},
                       clc : {None}]
  /\ heap = EmptyHeap
  /\ InitProcess

Next == Bootstrap \/ Served

Spec == Init /\ [][Next]_vars
----------------------------------------------------------------------------
(* The sampler on its own: construction, then shouldSample calls *)

PathLists ==
  {[isArray |-> FALSE, items |-> <<>>]} \cup
  {[isArray |-> TRUE, items |-> l] : l \in SeqsUpTo(Strings, MaxPaths)}

SamplerSpecs ==
  {[kind |-> k, root |-> r] :
     k \in BaseExports \cup BaseInherited \cup {"MySampler"},
     r \in {None, Some("AlwaysOnSampler"), Some("MySampler"), Some("toString")}}

\* every sampler spec without an ignore list, and every ignore list under
\* the sampler specs whose delegates answer differently
InitSampler ==
  /\ telemetry \in
       {[DefaultTelemetry EXCEPT !.sampler = sp] : sp \in SamplerSpecs} \cup
       {[DefaultTelemetry EXCEPT !.sampler = sp, !.ignoreIncomingPaths = ps] :
          sp \in {[kind |-> "AlwaysOnSampler", root |-> None],
                  [kind |-> "AlwaysOffSampler", root |-> None],
                  [kind |-> "ParentBasedSampler", root |-> Some("AlwaysOnSampler")]},
          ps \in PathLists}
  /\ process_env = DefaultEnv
  /\ credentials = NoCredentials
  /\ heap = EmptyHeap
  /\ InitProcess

GetSampler ==
  /\ calls.sampler = 0
  /\ sampler' = _getSampler(telemetry)
  /\ calls' = [calls EXCEPT !.sampler = @ + 1]
  /\ last' = [op |-> "_getSampler", ok |-> sampler'.ok, error |-> sampler'.error, arg |-> None]
  /\ UNCHANGED <<telemetry, process_env, credentials, heap, otel, cds, sampling>>

ShouldSample ==
  /\ calls.shouldSample < MaxSamples
  /\ sampler.ok /\ IsSet(sampler.value)
  /\ \E originalUrl \in {None} \cup {Some(u) : u \in Strings},
        parent \in ParentDecisions(Val(sampler.value)) :
        LET r == _filterSampler(Val(sampler.value).paths, originalUrl, parent)
        IN  sampling' = [originalUrl |-> originalUrl, decision |-> r.decision,
                         consulted |-> r.consulted, parent |-> parent]
  /\ calls' = [calls EXCEPT !.shouldSample = @ + 1]
  /\ UNCHANGED <<telemetry, process_env, credentials, heap, otel, cds, last, sampler>>

NextSampler == GetSampler \/ ShouldSample

SpecSampler == InitSampler /\ [][NextSampler]_vars

----------------------------------------------------------------------------
(* The exporter on its own *)

ExporterConfigs ==
  {None} \cup
  {Some([url |-> u, headers |-> h, credentials |-> c]) :
     u \in {None, Some(<<>>), Some(<<"https://explicit">>)},
     h \in {None, Some("declared")},
     c \in {None, Some(<<"explicit-creds">>)}}

DeclaredHeaders(t) ==
  IF IsSet(t.exporter) /\ IsSet(Val(t.exporter).config)
  THEN Val(Val(t.exporter).config).headers ELSE None

InitExporter ==
  /\ telemetry \in
       {[DefaultTelemetry EXCEPT !.kind = k, !.exporter = Some([Otlp(c) EXCEPT !.class = cl])] :
          k \in {Console, Dynatrace, CloudLogging, Both},
          c \in ExporterConfigs,
          cl \in {"OTLPTraceExporter", "MyExporter"}}
  /\ process_env = DefaultEnv
  /\ credentials \in [dynatrace : DynatraceCredentials, clc : CloudLoggingCredentials]
  /\ heap \in {[EmptyHeap EXCEPT !["declared"].authorization = a] :
                  a \in IF IsSet(DeclaredHeaders(telemetry))
                        THEN {None, Some(<<"Bearer x">>)} ELSE {None}}
  /\ InitProcess

GetExporter ==
  /\ calls.exporter < MaxCalls
  /\ LET e == _getExporter(telemetry, credentials, heap)
     IN  /\ heap' = e.heap
         /\ last' = [op |-> "_getExporter", ok |-> e.ok, error |-> e.error, arg |-> e.arg]
  /\ calls' = [calls EXCEPT !.exporter = @ + 1]
  /\ UNCHANGED <<telemetry, process_env, credentials, otel, cds, sampler, sampling>>

NextExporter == GetExporter

SpecExporter == InitExporter /\ [][NextExporter]_vars
----------------------------------------------------------------------------
(* Properties *)

BootstrapStep == calls'.bootstrap = calls.bootstrap + 1
CompletedStep == calls'.completed = calls.completed + 1
ExporterStep == calls'.exporter = calls.exporter + 1

\* no assembler throws under the configuration of this process
AssemblersOk ==
  /\ IsSet(telemetry.exporter)
  /\ _getSampler(telemetry).ok
  /\ _getPropagator(telemetry).ok
  /\ _getInstrumentations(telemetry).ok
  /\ HostAgentBypass(telemetry, process_env) \/ _getExporter(telemetry, credentials, heap).ok

\* C1: with an exporter configured and no assembler failing, after any number
\* of bootstrap calls exactly one tracer provider has been constructed and
\* registered as the global delegate, and the sampler, propagator and
\* instrumentation assemblers have each run exactly once (in the first call).
C1_SingleProvider ==
  (AssemblersOk /\ calls.bootstrap >= 1) =>
    /\ otel.delegate
    /\ otel.constructed = 1
    /\ otel.registered = 1
    /\ calls.sampler = 1
    /\ calls.propagator = 1
    /\ calls.instrumentations = 1
    /\ calls.completed = calls.bootstrap

C1_Witness ==
  AssemblersOk /\ calls.bootstrap >= 2 /\ otel.constructed = 1 /\ calls.sampler = 1

\* C2: after one or more completed bootstrap calls the provider has exactly
\* one span processor when the host-agent bypass does not apply, and none
\* when it applies.
C2_ExactlyOneProcessor ==
  calls.completed >= 1 =>
    Len(otel.processors) = IF HostAgentBypass(telemetry, process_env) THEN 0 ELSE 1

\* C3: the composite sampler forces NOT_RECORD, without consulting the
\* delegate, exactly when http.originalUrl is present and starts with a
\* configured prefix; in every other case the delegate is consulted and its
\* decision is the result.
UrlMatches(paths, originalUrl) ==
  /\ IsSet(originalUrl)
  /\ paths.isArray
  /\ \E i \in 1..Len(paths.items) : StartsWith(Val(originalUrl), paths.items[i])

C3_FilterIff ==
  calls.shouldSample > 0 =>
    IF UrlMatches(telemetry.ignoreIncomingPaths, sampling.originalUrl)
    THEN sampling.decision = "NOT_RECORD" /\ ~sampling.consulted
    ELSE sampling.consulted /\ sampling.decision = sampling.parent

Declared == IF IsSet(Val(telemetry.exporter).config) THEN Val(Val(telemetry.exporter).config)
            ELSE EmptyConfig
DynatraceApplies == IsSet(credentials.dynatrace) /\ Match(telemetry.kind, "dynatrace")
CloudLoggingApplies == IsSet(credentials.clc) /\ Match(telemetry.kind, "cloud-logging")
DerivedUrl == Some(Val(Val(credentials.dynatrace).apiurl) \o <<"/v2/otlp/v1/traces">>)

\* C4: a field the declared exporter config sets (url, headers,
\* headers.authorization, credentials) reaches the exporter constructor with
\* the declared value, whichever branches apply; when both apply and url is
\* unset, the url is the one derived from the Dynatrace apiurl.
C4_FirstWriteWins ==
  [][(ExporterStep /\ last'.ok) =>
       LET arg == Val(last'.arg)
       IN  /\ IsSet(Declared.url) => arg.url = Declared.url
           /\ IsSet(Declared.credentials) => arg.credentials = Declared.credentials
           /\ IsSet(Declared.headers) =>
                 /\ arg.headers = Declared.headers
                 /\ IsSet(heap[Val(Declared.headers)].authorization) =>
                       heap'[Val(arg.headers)].authorization = heap[Val(Declared.headers)].authorization
           /\ (DynatraceApplies /\ CloudLoggingApplies /\ ~IsSet(Declared.url)) =>
                 arg.url = DerivedUrl]_vars

C4_Witness ==
  /\ last.op = "_getExporter" /\ last.ok
  /\ DynatraceApplies /\ CloudLoggingApplies
  /\ Declared.url = Some(<<>>)
  /\ Val(last.arg).url = Some(<<>>)
  /\ Val(last.arg).credentials = Some(<<"clc-creds">>)

\* C5: a bootstrap call that throws leaves no partial pipeline: the global
\* delegate, the registered instrumentations, the span processors and the
\* exposed tracer handle are as they were before the call.
C5_NoPartialPipeline ==
  [][(BootstrapStep /\ ~last'.ok) =>
       /\ otel'.delegate = otel.delegate
       /\ otel'.instrumentations = otel.instrumentations
       /\ otel'.processors = otel.processors
       /\ cds' = cds]_vars

\* C6: when the Dynatrace branch applies, _getExporter throws the error that
\* names the token field and the legacy token field exactly when
\* headers.authorization is unset and no token is in the credentials;
\* otherwise, if headers.authorization was unset it becomes "Api-Token " +
\* token (named field first) and an unset url becomes apiurl + the OTLP path.
C6_TokenErrorIff ==
  [][(ExporterStep /\ DynatraceApplies
        /\ Val(telemetry.exporter).class \in ModuleExports(Val(telemetry.exporter).module)) =>
       LET dynatrace == Val(credentials.dynatrace)
           authUnset == ~IsSet(Declared.headers) \/ ~IsSet(heap[Val(Declared.headers)].authorization)
           noToken == ~Truthy(dynatrace.named) /\ ~Truthy(dynatrace.legacy)
           token == IF Truthy(dynatrace.named) THEN dynatrace.named ELSE dynatrace.legacy
       IN  /\ ~last'.ok <=> (authUnset /\ noToken)
           /\ ~last'.ok => (Contains(last'.error, telemetry.token_name)
                              /\ Contains(last'.error, "rest_apitoken.token"))
           /\ (last'.ok /\ authUnset) =>
                 /\ heap'[Val(Val(last'.arg).headers)].authorization = Some(<<"Api-Token ">> \o Val(token))
                 /\ ~IsSet(Declared.url) => Val(last'.arg).url = DerivedUrl]_vars

\* C7: sampler construction throws an error containing the unknown value,
\* and returns no sampler, for every kind outside the built-in catalog and
\* for every root outside the built-in catalog.
C7_UnknownKindOrRoot ==
  last.op = "_getSampler" =>
    /\ telemetry.sampler.kind \notin BaseExports =>
          (~last.ok /\ Contains(last.error, telemetry.sampler.kind) /\ ~IsSet(sampler.value))
    /\ (IsSet(telemetry.sampler.root) /\ Val(telemetry.sampler.root) \notin BaseExports) =>
          (~last.ok /\ Contains(last.error, Val(telemetry.sampler.root)) /\ ~IsSet(sampler.value))

\* C7 as amended: sampler construction throws "Unknown sampler <value>", and
\* returns no sampler, for every kind that names nothing in the
\* sdk-trace-base module and, when kind is ParentBasedSampler, for every
\* root that names nothing in it.
C7_UnknownSampler ==
  last.op = "_getSampler" =>
    /\ base(telemetry.sampler.kind) = "undefined" =>
          (~last.ok /\ last.error = <<"Unknown sampler ", telemetry.sampler.kind>>
             /\ ~IsSet(sampler.value))
    /\ (telemetry.sampler.kind = "ParentBasedSampler"
          /\ base(Str(telemetry.sampler.root)) = "undefined") =>
          (~last.ok /\ last.error = <<"Unknown sampler ", Str(telemetry.sampler.root)>>
             /\ ~IsSet(sampler.value))

C7_Witness ==
  /\ last.op = "_getSampler" /\ ~last.ok
  /\ telemetry.sampler.kind = "ParentBasedSampler"
  /\ telemetry.sampler.root = Some("MySampler")
  /\ Contains(last.error, "MySampler")

\* C8: the tracer handle is never active before the 'served' event has
\* fired: a bootstrap call returning before the event leaves it inactive, and
\* it turns active only in a step where the event fires with a handler
\* registered.
C8_ActiveOnlyAfterServed ==
  [][/\ cds'.active => cds'.served > 0
     /\ (BootstrapStep /\ cds.served = 0) => ~cds'.active
     /\ (~cds.active /\ cds'.active) =>
           (cds'.served = cds.served + 1 /\ cds.handlers > 0 /\ cds.tracer)]_vars

C8_Witness == cds.tracer /\ cds.active /\ cds.served = 1 /\ calls.completed = 1

\* C9: a completed bootstrap call attaches what the environment dictates:
\* under the host-agent bypass the exporter assembler is not invoked and no
\* processor is attached, while the tracer handle is exposed; otherwise the
\* exporter is built once and one processor is attached, a Batch processor
\* when NODE_ENV is production and a Simple processor in every other mode.
C9_ProcessorByEnvironment ==
  [][CompletedStep =>
       IF Truthy(process_env.DT_NODE_PRELOAD_OPTIONS) /\ Match(telemetry.kind, "dynatrace")
       THEN /\ calls'.exporter = calls.exporter
            /\ otel'.processors = otel.processors
            /\ cds'.tracer
       ELSE /\ calls'.exporter = calls.exporter + 1
            /\ cds'.tracer
            /\ otel'.processors =
                  Append(otel.processors,
                         IF process_env.NODE_ENV = Some("production")
                         THEN "BatchSpanProcessor" ELSE "SimpleSpanProcessor")]_vars

C9_Witness ==
  /\ calls.completed = 1
  /\ process_env.NODE_ENV = Some("production")
  /\ otel.processors = <<"BatchSpanProcessor">>
  /\ calls.exporter = 1

\* C10: _getExporter leaves the declared exporter configuration as it was,
\* the fields of a declared headers object included.
C10_DeclaredConfigUnchanged ==
  [][ExporterStep => (telemetry' = telemetry /\ heap'["declared"] = heap["declared"])]_vars
====
